---- MODULE Spec2Model ----
(***************************************************************************)
(* Model of app/pdf_report.py: the text wrapper _wrap_text and the dynamic *)
(* page-layout engine build_pdf_bytes_dynamic.                             *)
(*                                                                         *)
(* Units.  ReportLab measures in points and mm = 72/25.4 points.  Every    *)
(* length of the layout is a sum of whole points and tenths of mm, so the  *)
(* model measures lengths in u = 1/127 point = 1/360 mm, where both are    *)
(* integers: pt = 127 u and mm = 360 u.  A string width is                 *)
(* (sum of AFM widths) * font_size / 1000 points; the model compares       *)
(* widths in 1/1000 u, where they are integers too.                        *)
(*                                                                         *)
(* A string is a sequence of one-character strings.  A Python value is a   *)
(* record tagged with its type: None, a str, an int, or any other object.  *)
(***************************************************************************)
EXTENDS Integers, Sequences, FiniteSets, TLC

VARIABLES
    \* one call of _wrap_text and one re-wrap of a line of its result
    w_pc, w_text, w_max_width, w_font, w_lines, w_pick, w_relines,
    \* build_pdf_bytes_dynamic
    sections,      \* the sections argument
    logo_exists,   \* os.path.exists(LOGO_PATH), a fact of the file system
    pc,            \* position of the composer
    si,            \* index of the section the composer loop is at
    filtered,      \* draw_section: the renderable rows of the current section
    ri,            \* draw_section: index of the next row of filtered
    y,             \* the vertical cursor
    page_num,      \* the page counter
    canvas,        \* the ReportLab canvas: finished pages and the current page
    run,           \* which composition of the same document this is (1 or 2)
    prev_out       \* the pages the first composition returned

wrap_vars == <<w_pc, w_text, w_max_width, w_font, w_lines, w_pick, w_relines>>
pdf_vars == <<sections, logo_exists, pc, si, filtered, ri, y, page_num, canvas,
              run, prev_out>>
vars == <<w_pc, w_text, w_max_width, w_font, w_lines, w_pick, w_relines,
          sections, logo_exists, pc, si, filtered, ri, y, page_num, canvas,
          run, prev_out>>

----------------------------------------------------------------------------
(* Units *)

pt == 127
mm == 360

(* Characters *)

SP == " "
TAB == "\t"
LF == "\n"
CR == "\r"

(* Python values *)

NoneVal == [t |-> "none"]
StrVal(s) == [t |-> "str", s |-> s]
IntVal(n) == [t |-> "int", n |-> n]

Digit(d) == CASE d = 0 -> "0" [] d = 1 -> "1" [] d = 2 -> "2" [] d = 3 -> "3"
              [] d = 4 -> "4" [] d = 5 -> "5" [] d = 6 -> "6" [] d = 7 -> "7"
              [] d = 8 -> "8" [] OTHER -> "9"

RECURSIVE Decimal(_)
Decimal(n) == IF n < 10 THEN <<Digit(n)>> ELSE Append(Decimal(n \div 10), Digit(n % 10))

\* str(v) of a str or of a natural number
PyStr(v) == IF v.t = "str" THEN v.s ELSE Decimal(v.n)

\* the truth value of v
Truthy(v) == CASE v.t = "none" -> FALSE
               [] v.t = "str" -> v.s # << >>
               [] v.t = "int" -> v.n # 0
               [] OTHER -> TRUE

\* str.strip() and str.split() without argument cut at whitespace
IsSpace(ch) == ch \in {SP, TAB, LF, CR}

----------------------------------------------------------------------------
(* Font metrics: reportlab.pdfbase.pdfmetrics.stringWidth *)

\* AFM advance widths (1/1000 em) of the standard fonts, for the alphabet used
CharWidth(font_name, ch) ==
    IF font_name = "Helvetica-Bold"
    THEN CASE ch = "i" -> 278
           [] ch = "a" -> 556
           [] ch = "W" -> 944
           [] ch = "0" -> 556
           [] ch = "7" -> 556
           [] OTHER -> 278
    ELSE CASE ch = "i" -> 222
           [] ch = "a" -> 556
           [] ch = "W" -> 944
           [] ch = "0" -> 556
           [] ch = "7" -> 556
           [] OTHER -> 278

\* the widths of the occurrences in s of the characters of chars, summed
RECURSIVE AfmSumOf(_, _, _)
AfmSumOf(chars, s, font_name) ==
    IF chars = {} THEN 0
    ELSE LET ch == CHOOSE c \in chars : TRUE IN
         CharWidth(font_name, ch) * Cardinality({k \in 1..Len(s) : s[k] = ch})
         + AfmSumOf(chars \ {ch}, s, font_name)

\* the sum of the widths of the characters of s
AfmSum(s, font_name) == AfmSumOf({s[k] : k \in 1..Len(s)}, s, font_name)

\* stringWidth(s, font_name, font_size), in 1/1000 u
stringWidth(s, font_name, font_size) == AfmSum(s, font_name) * font_size * pt

\* stringWidth(s, font_name, font_size) <= max_width, max_width in u
Fits(s, max_width, font_name, font_size) ==
    stringWidth(s, font_name, font_size) <= max_width * 1000

----------------------------------------------------------------------------
(* _wrap_text *)

\* s.replace("\r\n", "\n")
\* (a CR that a LF follows is dropped, which leaves the LF)
ReplaceCRLF(s) ==
    LET marked == [k \in 1..Len(s) |->
                     IF s[k] = CR /\ k < Len(s) /\ s[k + 1] = LF THEN "CRLF" ELSE s[k]]
        Kept(ch) == ch # "CRLF"
    IN SelectSeq(marked, Kept)

\* s.replace("\r", "\n")
ReplaceCR(s) == [i \in 1..Len(s) |-> IF s[i] = CR THEN LF ELSE s[i]]

\* s.split("\n"): the pieces between the line feeds, at least one piece
\* the index of the first line feed of s from k on, Len(s) + 1 if there is none
NextLF(s, k) ==
    CHOOSE j \in k..(Len(s) + 1) :
        /\ j = Len(s) + 1 \/ s[j] = LF
        /\ \A i \in k..(j - 1) : s[i] # LF

RECURSIVE SplitLFFrom(_, _)
SplitLFFrom(s, k) ==
    LET j == NextLF(s, k) IN
    IF j > Len(s) THEN <<SubSeq(s, k, Len(s))>>
    ELSE <<SubSeq(s, k, j - 1)>> \o SplitLFFrom(s, j + 1)

SplitLF(s) == SplitLFFrom(s, 1)

\* the index of the first character of s, from k on, that is no whitespace
RECURSIVE FirstInk(_, _)
FirstInk(s, k) == IF k <= Len(s) /\ IsSpace(s[k]) THEN FirstInk(s, k + 1) ELSE k

\* the index of the last character of s, up to k, that is no whitespace
RECURSIVE LastInk(_, _)
LastInk(s, k) == IF k >= 1 /\ IsSpace(s[k]) THEN LastInk(s, k - 1) ELSE k

\* str.strip()
Strip(s) == SubSeq(s, FirstInk(s, 1), LastInk(s, Len(s)))

\* str.split(): the maximal runs of non-whitespace characters
\* the index of the first whitespace of s from k on, Len(s) + 1 if there is none
NextSpace(s, k) ==
    CHOOSE j \in k..(Len(s) + 1) :
        /\ j = Len(s) + 1 \/ IsSpace(s[j])
        /\ \A i \in k..(j - 1) : ~IsSpace(s[i])

RECURSIVE SplitWS(_, _)
SplitWS(s, k) ==
    LET b == FirstInk(s, k)
        e == NextSpace(s, b)
    IN IF b > Len(s) THEN << >>
       ELSE <<SubSeq(s, b, e - 1)>> \o SplitWS(s, e)

Words_unsplit(p) == <<p>>

\* words = p.split()
Words(p) == SplitWS(p, 1)

\* the loop "for ch in w" of the hard split, from character k on
RECURSIVE SplitChars(_, _, _, _, _, _, _)
SplitChars(w, k, chunk, lines, max_width, font_name, font_size) ==
    IF k > Len(w) THEN [cur |-> chunk, lines |-> lines]
    ELSE LET trial2 == Append(chunk, w[k]) IN
         IF Fits(trial2, max_width, font_name, font_size)
         THEN SplitChars(w, k + 1, trial2, lines, max_width, font_name, font_size)
         ELSE SplitChars(w, k + 1, <<w[k]>>,
                         IF chunk # << >> THEN Append(lines, chunk) ELSE lines,
                         max_width, font_name, font_size)

HardSplit_drop_last(w, lines, max_width, font_name, font_size) ==
    [cur |-> << >>,
     lines |-> SplitChars(w, 1, << >>, lines, max_width, font_name, font_size).lines]

HardSplit_whole(w, lines, max_width, font_name, font_size) ==
    [cur |-> w, lines |-> lines]

\* the hard split of a word that is too long: chunk = "" ... cur = chunk
HardSplit(w, lines, max_width, font_name, font_size) ==
    SplitChars(w, 1, << >>, lines, max_width, font_name, font_size)

\* trial = (cur + " " + w).strip()
Trial(cur, w) == Strip(cur \o <<SP>> \o w)

\* one iteration of "for w in words"
PlaceWord(cur, lines, w, max_width, font_name, font_size) ==
    LET trial == Trial(cur, w) IN
    IF Fits(trial, max_width, font_name, font_size)
    THEN [cur |-> trial, lines |-> lines]
    ELSE LET flushed == IF cur # << >> THEN Append(lines, cur) ELSE lines IN
         IF ~Fits(w, max_width, font_name, font_size)
         THEN HardSplit(w, flushed, max_width, font_name, font_size)
         ELSE [cur |-> w, lines |-> flushed]

RECURSIVE PackWords(_, _, _, _, _, _, _)
PackWords(words, k, cur, lines, max_width, font_name, font_size) ==
    IF k > Len(words)
    THEN (IF cur # << >> THEN Append(lines, cur) ELSE lines)
    ELSE LET r == PlaceWord(cur, lines, words[k], max_width, font_name, font_size) IN
         PackWords(words, k + 1, r.cur, r.lines, max_width, font_name, font_size)

\* the body of "for p in paragraphs": the lines it appends to lines
ParagraphLines(p0, max_width, font_name, font_size) ==
    LET p == Strip(p0) IN
    IF p = << >> THEN << << >> >>
    ELSE PackWords(Words(p), 1, << >>, << >>, max_width, font_name, font_size)

\* the lines after the first k paragraphs
RECURSIVE WrapParagraphs(_, _, _, _, _)
WrapParagraphs(paragraphs, k, max_width, font_name, font_size) ==
    IF k = 0 THEN << >>
    ELSE WrapParagraphs(paragraphs, k - 1, max_width, font_name, font_size)
         \o ParagraphLines(paragraphs[k], max_width, font_name, font_size)

wrap_text_none_empty(text, max_width, font_name, font_size) ==
    IF text.t = "none" THEN << >>
    ELSE LET paragraphs == SplitLF(ReplaceCR(ReplaceCRLF(PyStr(text))))
         IN WrapParagraphs(paragraphs, Len(paragraphs), max_width, font_name, font_size)

\* _wrap_text(text, max_width, font_name, font_size)
wrap_text(text, max_width, font_name, font_size) ==
    IF text.t = "none" THEN << << >> >>
    ELSE LET s == ReplaceCR(ReplaceCRLF(PyStr(text)))
             paragraphs == SplitLF(s)
             lines == WrapParagraphs(paragraphs, Len(paragraphs), max_width, font_name, font_size)
         IN IF lines # << >> THEN lines ELSE << << >> >>

----------------------------------------------------------------------------
(* build_pdf_bytes_dynamic: layout constants *)

page_width == 210 * mm
page_height == 297 * mm

margin_x == 18 * mm
top_y == page_height - 18 * mm
bottom_margin == 18 * mm

line_h == (55 * mm) \div 10
label_col_w == 70 * mm
gap == 4 * mm
value_col_w == page_width - (2 * margin_x + label_col_w + gap)

title_size == 15
section_size == 11
label_font == "Helvetica-Bold"
value_font == "Helvetica"
label_size == 9
value_size == 9

\* the default of os.environ.get("DOC_VERSION", ...), its bullet written as a dash
DOC_VERSION == "ReDent Nova GmbH - Customer Complaint Form"
FormDetails == <<"F", "o", "r", "m", " ", "D", "e", "t", "a", "i", "l", "s">>

Max(a, b) == IF a >= b THEN a ELSE b

----------------------------------------------------------------------------
(* The canvas: c.drawString, c.rect, c.showPage, c.save *)

EmptyCanvas == [done |-> << >>, cur |-> << >>]

Draw(c, op) == [c EXCEPT !.cur = Append(@, op)]

\* c.showPage(): the current page is finished and a blank one begins
showPage(c) == [done |-> Append(c.done, c.cur), cur |-> << >>]

\* c.save(): a page that has drawing on it is finished first
save(c) == IF c.cur # << >> THEN showPage(c) ELSE c

----------------------------------------------------------------------------
(* The closures of build_pdf_bytes_dynamic, on st = [y, page_num, canvas] *)

St == [y |-> y, page_num |-> page_num, canvas |-> canvas]

draw_footer(st) ==
    [st EXCEPT !.canvas = Draw(@, [kind |-> "footer", text |-> DOC_VERSION,
                                   page |-> st.page_num])]

draw_header(st) ==
    LET y1 == IF logo_exists THEN st.y - (24 * mm + 6 * mm) ELSE st.y
        y2 == y1 - 9 * mm
        box_h == 22 * mm
        box_y == y2 - box_h
    IN [st EXCEPT !.canvas = Draw(@, [kind |-> "header", logo |-> logo_exists,
                                      title_y |-> y1, box_y |-> box_y]),
                  !.y = box_y - 8 * mm]

new_page_same_number(st, with_header) ==
    LET a == draw_footer(st)
        b == [a EXCEPT !.canvas = showPage(@), !.y = top_y]
    IN IF with_header THEN draw_header(b) ELSE b

new_page_no_header(st, with_header) ==
    LET a == draw_footer(st)
    IN [a EXCEPT !.canvas = showPage(@), !.page_num = @ + 1, !.y = top_y]

new_page_keep_y(st, with_header) ==
    LET a == draw_footer(st)
        b == [a EXCEPT !.canvas = showPage(@), !.page_num = @ + 1]
    IN IF with_header THEN draw_header(b) ELSE b

new_page(st, with_header) ==
    LET a == draw_footer(st)
        b == [a EXCEPT !.canvas = showPage(@), !.page_num = @ + 1, !.y = top_y]
    IN IF with_header THEN draw_header(b) ELSE b

ensure_space(st, height_needed) ==
    IF st.y - height_needed < bottom_margin THEN new_page(st, TRUE) ELSE st

\* draw_section: label = str(r.get("label") or "").strip()
RowLabel(r) == Strip(IF Truthy(r.label) THEN PyStr(r.label) ELSE << >>)

\* draw_section: value = "" if r.get("value") is None else str(r.get("value")).strip()
RowValue(r) == IF r.value.t = "none" THEN << >> ELSE Strip(PyStr(r.value))

\* draw_section: r.get raises AttributeError on a row that is no mapping
IsMapping(r) == r.t = "dict"

RECURSIVE FilterRows_keep_all(_, _)
FilterRows_keep_all(rows, k) ==
    IF k > Len(rows) THEN << >>
    ELSE <<[label |-> RowLabel(rows[k]), value |-> RowValue(rows[k])]>>
         \o FilterRows_keep_all(rows, k + 1)

\* draw_section: the loop that builds filtered, from row k on
RECURSIVE FilterRows(_, _)
FilterRows(rows, k) ==
    IF k > Len(rows) THEN << >>
    ELSE LET label == RowLabel(rows[k])
             value == RowValue(rows[k])
         IN (IF label # << >> /\ value # << >>
             THEN <<[label |-> label, value |-> value]>> ELSE << >>)
            \o FilterRows(rows, k + 1)

\* draw_section: row_h of a row with these wrapped lines
RowHeight(label_lines, value_lines) ==
    LET label_block_h == Max(line_h * Len(label_lines), line_h)
        value_block_h == Max(line_h * Len(value_lines), (line_h * 3) \div 2)
    IN Max(label_block_h, value_block_h) + 2 * mm

\* draw_section: the loop that draws the value lines, from line k on; the
\* baselines of the lines it draws
RECURSIVE DrawValueLines(_, _, _, _)
DrawValueLines(value_lines, k, ty, box_y) ==
    IF k > Len(value_lines) \/ ty < box_y + 2 * pt THEN << >>
    ELSE <<ty>> \o DrawValueLines(value_lines, k + 1, ty - line_h, box_y)

\* draw_section: the body of "for label, value in filtered"
draw_row(st, row) ==
    LET label_lines == wrap_text(StrVal(row.label), label_col_w - 2 * pt,
                                 label_font, label_size)
        value_lines == wrap_text(StrVal(row.value), value_col_w - 4 * pt,
                                 value_font, value_size)
        row_h == RowHeight(label_lines, value_lines)
        st1 == ensure_space(st, row_h + 2 * mm)
        row_top == st1.y
        row_bottom == st1.y - row_h
        box_y == row_bottom + 2 * pt
        box_h == row_h - 4 * pt
        drawn == DrawValueLines(value_lines, 1, box_y + box_h - line_h, box_y)
    IN [st1 EXCEPT !.canvas = Draw(@, [kind |-> "row",
                                       label |-> row.label, value |-> row.value,
                                       row_top |-> row_top, row_bottom |-> row_bottom,
                                       label_lines |-> Len(label_lines),
                                       value_lines |-> Len(value_lines),
                                       box_y |-> box_y, box_h |-> box_h,
                                       drawn |-> drawn]),
                   !.y = row_bottom - 2 * mm]

\* draw_section: the title of a section that has renderable rows
draw_title(st, section_title) ==
    LET st1 == ensure_space(st, 12 * mm)
    IN [st1 EXCEPT !.canvas = Draw(@, [kind |-> "title", text |-> section_title,
                                       at |-> st1.y]),
                   !.y = st1.y - 7 * mm]

\* the composer: sec_title = str(sec.get("title") or "Form Details").strip() or "Form Details"
SecTitle(sec) ==
    LET t == Strip(IF Truthy(sec.title) THEN PyStr(sec.title) ELSE FormDetails)
    IN IF t # << >> THEN t ELSE FormDetails

\* the composer: sec_rows = sec.get("rows") or []
SecRows(sec) ==
    IF sec.rows.t = "list" /\ sec.rows.items # << >> THEN sec.rows
    ELSE IF sec.rows.t = "other" THEN sec.rows
    ELSE [t |-> "list", items |-> << >>]

----------------------------------------------------------------------------
(* The documents build_pdf_bytes_dynamic is called with *)

MaxItems == 4
LongLen == 40
BigLines == 20
TallLines == 41

RECURSIVE SeqsUpTo(_, _)
SeqsUpTo(S, n) ==
    IF n = 0 THEN {<< >>}
    ELSE LET shorter == SeqsUpTo(S, n - 1) IN
         shorter \cup {Append(s, c) : s \in {t \in shorter : Len(t) = n - 1}, c \in S}

\* n lines "a", separated by line feeds
LinesText(n) == [k \in 1..(2 * n - 1) |-> IF k % 2 = 1 THEN "a" ELSE LF]

\* n characters without any space
LongWord(n) == [k \in 1..n |-> "W"]

DictRow(label, value) == [t |-> "dict", label |-> label, value |-> value]

RowTemplates ==
    { DictRow(StrVal(<<"a">>), StrVal(<<"a">>)),            \* a short row
      DictRow(StrVal(<<"a">>), IntVal(7)),                  \* a value that is no str
      DictRow(StrVal(<<"a">>), StrVal(LongWord(LongLen))),  \* a long value, no spaces
      DictRow(StrVal(<<"a">>), StrVal(LinesText(BigLines))),
      DictRow(StrVal(<<"a">>), StrVal(LinesText(TallLines))),
      DictRow(StrVal(<<"a">>), StrVal(<<SP>>)),             \* empty after trimming
      DictRow(IntVal(0), NoneVal),                          \* no label, no value
      [t |-> "other"] }                                     \* a row that is no mapping

ListOf(items) == [t |-> "list", items |-> items]

Section(title, rows) == [title |-> title, rows |-> rows]

\* the sections that hold at most n rows
SectionsUpTo(n) ==
    {Section(StrVal(<<"S">>), ListOf(items)) : items \in SeqsUpTo(RowTemplates, n)}
    \cup { Section(NoneVal, ListOf(<< >>)),                 \* no title
           Section(StrVal(<<"S">>), NoneVal),               \* no rows list
           Section(StrVal(<<"S">>), [t |-> "other"]) }      \* rows is no list

RowCount(sec) == IF sec.rows.t = "list" THEN Len(sec.rows.items) ELSE 0

\* the documents whose sections and rows number at most n in all
RECURSIVE Documents(_)
Documents(n) ==
    IF n = 0 THEN {<< >>}
    ELSE {<< >>} \cup
         UNION { {<<sec>> \o d : d \in Documents(n - 1 - RowCount(sec))}
                 : sec \in SectionsUpTo(n - 1) }

----------------------------------------------------------------------------
(* build_pdf_bytes_dynamic, step by step *)

WrapIdle ==
    /\ w_pc = "idle" /\ w_text = NoneVal /\ w_max_width = 0 /\ w_font = "Helvetica"
    /\ w_lines = << >> /\ w_pick = 0 /\ w_relines = << >>

Init ==
    /\ sections \in Documents(MaxItems)
    /\ logo_exists \in BOOLEAN
    /\ pc = "start"
    /\ si = 1
    /\ filtered = << >>
    /\ ri = 1
    /\ y = top_y
    /\ page_num = 1
    /\ canvas = EmptyCanvas
    /\ run = 1
    /\ prev_out = << >>
    /\ WrapIdle

SetSt(result) ==
    \E st \in {result} :
        /\ y' = st.y
        /\ page_num' = st.page_num
        /\ canvas' = st.canvas

\* "# Render": draw_header()
ComposeStart ==
    /\ pc = "start"
    /\ SetSt(draw_header(St))
    /\ pc' = "sections"
    /\ UNCHANGED <<sections, logo_exists, si, filtered, ri, run, prev_out>>
    /\ UNCHANGED wrap_vars

\* the loop "for sec in sections": sec_rows is no list, the section is passed over
SkipSection ==
    /\ pc = "sections"
    /\ si <= Len(sections)
    /\ SecRows(sections[si]).t # "list"
    /\ si' = si + 1
    /\ UNCHANGED <<sections, logo_exists, pc, filtered, ri, y, page_num, canvas,
                   run, prev_out>>
    /\ UNCHANGED wrap_vars

\* draw_section: r.get on a row that is no mapping raises AttributeError
SectionRaises ==
    /\ pc = "sections"
    /\ si <= Len(sections)
    /\ SecRows(sections[si]).t = "list"
    /\ \E k \in 1..Len(SecRows(sections[si]).items) :
         ~IsMapping(SecRows(sections[si]).items[k])
    /\ pc' = "raised"
    /\ UNCHANGED <<sections, logo_exists, si, filtered, ri, y, page_num, canvas,
                   run, prev_out>>
    /\ UNCHANGED wrap_vars

\* draw_section: "if not filtered: return"
EmptySection ==
    /\ pc = "sections"
    /\ si <= Len(sections)
    /\ SecRows(sections[si]).t = "list"
    /\ \A k \in 1..Len(SecRows(sections[si]).items) :
         IsMapping(SecRows(sections[si]).items[k])
    /\ FilterRows(SecRows(sections[si]).items, 1) = << >>
    /\ si' = si + 1
    /\ UNCHANGED <<sections, logo_exists, pc, filtered, ri, y, page_num, canvas,
                   run, prev_out>>
    /\ UNCHANGED wrap_vars

\* draw_section: the filter, then ensure_space(12 * mm) and the title
BeginSection ==
    /\ pc = "sections"
    /\ si <= Len(sections)
    /\ SecRows(sections[si]).t = "list"
    /\ \A k \in 1..Len(SecRows(sections[si]).items) :
         IsMapping(SecRows(sections[si]).items[k])
    /\ FilterRows(SecRows(sections[si]).items, 1) # << >>
    /\ filtered' = FilterRows(SecRows(sections[si]).items, 1)
    /\ ri' = 1
    /\ SetSt(draw_title(St, SecTitle(sections[si])))
    /\ pc' = "rows"
    /\ UNCHANGED <<sections, logo_exists, si, run, prev_out>>
    /\ UNCHANGED wrap_vars

\* draw_section: one iteration of "for label, value in filtered"
DrawRow ==
    /\ pc = "rows"
    /\ ri <= Len(filtered)
    /\ SetSt(draw_row(St, filtered[ri]))
    /\ ri' = ri + 1
    /\ UNCHANGED <<sections, logo_exists, pc, si, filtered, run, prev_out>>
    /\ UNCHANGED wrap_vars

\* draw_section: "y -= 4 * mm" after the last row, and the return to the composer
EndSection ==
    /\ pc = "rows"
    /\ ri > Len(filtered)
    /\ y' = y - 4 * mm
    /\ pc' = "sections"
    /\ si' = si + 1
    /\ filtered' = << >>
    /\ ri' = 1
    /\ UNCHANGED <<sections, logo_exists, page_num, canvas, run, prev_out>>
    /\ UNCHANGED wrap_vars

\* "# finish": draw_footer(), c.save(), return buf.getvalue()
Finish ==
    /\ pc = "sections"
    /\ si > Len(sections)
    /\ canvas' = save(draw_footer(St).canvas)
    /\ pc' = "done"
    /\ UNCHANGED <<sections, logo_exists, si, filtered, ri, y, page_num, run, prev_out>>
    /\ UNCHANGED wrap_vars

\* the caller composes the same document once more; whether the logo file
\* exists is read from the file system again
Recompose ==
    /\ pc = "done"
    /\ run = 1
    /\ run' = 2
    /\ prev_out' = canvas.done
    /\ logo_exists' \in BOOLEAN
    /\ pc' = "start"
    /\ si' = 1
    /\ filtered' = << >>
    /\ ri' = 1
    /\ y' = top_y
    /\ page_num' = 1
    /\ canvas' = EmptyCanvas
    /\ UNCHANGED sections
    /\ UNCHANGED wrap_vars

Next ==
    \/ ComposeStart
    \/ SkipSection
    \/ SectionRaises
    \/ EmptySection
    \/ BeginSection
    \/ DrawRow
    \/ EndSection
    \/ Finish

\* one composition of a document
Spec == Init /\ [][Next]_vars

NextTwice ==
    \/ Next
    \/ Recompose

\* two compositions of the same document, one after the other
SpecTwice == Init /\ [][NextTwice]_vars

----------------------------------------------------------------------------
(* Properties of build_pdf_bytes_dynamic *)

\* the pages drawn on so far, the unfinished one last
PagesSoFar == canvas.done \o (IF canvas.cur # << >> THEN <<canvas.cur>> ELSE << >>)

OpsOfKind(page, kind) == {k \in 1..Len(page) : page[k].kind = kind}

Composing == pc \in {"sections", "rows"}

\* C1: every row is drawn whole on one page, from row_top down to row_bottom,
\* at or above the bottom margin, whatever its height.
RowsAboveBottomMargin ==
    \A p \in 1..Len(PagesSoFar) :
        \A k \in OpsOfKind(PagesSoFar[p], "row") :
            /\ PagesSoFar[p][k].row_bottom >= bottom_margin
            /\ PagesSoFar[p][k].row_top <= top_y

\* C2: the page number starts at 1 and is the number of pages finished so far
\* plus one, so it never decreases and grows by exactly 1 per page break; the
\* footer of the k-th page shows k.
PageNumberCountsPages ==
    /\ pc = "start" => page_num = 1 /\ canvas = EmptyCanvas
    /\ Composing \/ pc = "raised" => page_num = Len(canvas.done) + 1
    /\ pc = "done" => page_num = Len(canvas.done)
    /\ \A p \in 1..Len(PagesSoFar) :
          \A k \in OpsOfKind(PagesSoFar[p], "footer") : PagesSoFar[p][k].page = p

\* a composition that broke pages has returned
ThreePagesDone ==
    /\ pc = "done"
    /\ Len(canvas.done) >= 3
    /\ \A p \in 1..Len(canvas.done) : OpsOfKind(canvas.done[p], "footer") # {}

\* C3: every page has exactly one header, which is the first thing drawn on
\* it, and exactly one footer, which is the last thing drawn on it; a page
\* still being drawn on has its header first and no footer yet.
HeaderFirstFooterLast ==
    /\ \A p \in 1..Len(canvas.done) :
          LET page == canvas.done[p] IN
          /\ Len(page) >= 2
          /\ OpsOfKind(page, "header") = {1}
          /\ OpsOfKind(page, "footer") = {Len(page)}
    /\ Composing \/ pc = "raised" =>
          /\ OpsOfKind(canvas.cur, "header") = {1}
          /\ OpsOfKind(canvas.cur, "footer") = {}
    /\ pc \in {"start", "done"} => canvas.cur = << >>

\* a composition of several pages with rows on the later pages has returned
PagesWithRowsDone ==
    /\ pc = "done"
    /\ Len(canvas.done) >= 2
    /\ \A p \in 1..Len(canvas.done) : OpsOfKind(canvas.done[p], "row") # {}

\* C4: every wrapped value line of every row is drawn, inside the value box.
AllValueLinesDrawn ==
    \A p \in 1..Len(PagesSoFar) :
        \A k \in OpsOfKind(PagesSoFar[p], "row") :
            LET op == PagesSoFar[p][k] IN
            /\ Len(op.drawn) = op.value_lines
            /\ \A j \in 1..Len(op.drawn) :
                  op.drawn[j] >= op.box_y /\ op.drawn[j] <= op.box_y + op.box_h

\* a label or a value of the input that is empty after trimming
BlankText(v) == v.t = "none" \/ (v.t = "str" /\ \A k \in 1..Len(v.s) : IsSpace(v.s[k]))

\* a section of the input with a list of rows, each without label or without value
AllRowsBlank(sec) ==
    /\ sec.rows.t = "list"
    /\ \A k \in 1..Len(sec.rows.items) :
          /\ sec.rows.items[k].t = "dict"
          /\ BlankText(sec.rows.items[k].label) \/ BlankText(sec.rows.items[k].value)

\* C5: no row is drawn with an empty label or an empty value, and the step
\* over a section whose rows are all filtered out changes neither the cursor,
\* nor the page number, nor anything drawn.
BlankRowsLeaveNoTrace ==
    /\ [](\A p \in 1..Len(PagesSoFar) :
            \A k \in OpsOfKind(PagesSoFar[p], "row") :
                /\ PagesSoFar[p][k].label # << >>
                /\ PagesSoFar[p][k].value # << >>)
    /\ [][(pc = "sections" /\ si <= Len(sections) /\ AllRowsBlank(sections[si]))
            => (si' = si + 1 /\ UNCHANGED <<pc, y, page_num, canvas>>)]_vars

\* a section of blank rows was passed over, after a section that was drawn
BlankSectionPassed ==
    /\ pc = "sections"
    /\ si = 3
    /\ AllRowsBlank(sections[2])
    /\ RowCount(sections[2]) >= 1
    /\ OpsOfKind(canvas.cur, "row") # {}

\* C8: composing the same document again returns the same pages.
RecomposeGivesSamePages ==
    run = 2 /\ pc = "done" => canvas.done = prev_out

\* C9: composition never raises an error, whatever the sections hold.
MalformedInputNeverFatal == pc # "raised"

\* the y at which the header of a page was begun, read off what it drew
HeaderBegunAt(op) == IF op.logo THEN op.title_y + (24 * mm + 6 * mm) ELSE op.title_y

\* C11: while the page number stays, y never moves up and no page is
\* finished; the page number changes only in a step that calls ensure_space,
\* by one page, and the new page is begun at y = top_y; and when the block
\* that ensure_space is asked for fits, the step breaks no page and draws the
\* block alone, at the y it found.
CursorOnlyMovesDown ==
    /\ [](pc # "idle" => y <= top_y)
    /\ [][page_num' = page_num =>
            /\ y' <= y
            /\ canvas'.done = canvas.done \/ pc' = "done"]_vars
    /\ [][page_num' # page_num =>
            /\ pc \in {"sections", "rows"} /\ pc' = "rows"
            /\ page_num' = page_num + 1
            /\ Len(canvas'.done) = Len(canvas.done) + 1
            /\ HeaderBegunAt(canvas'.cur[1]) = top_y
            /\ y' < top_y]_vars
    /\ [][(pc = "rows" /\ ri' = ri + 1) =>
            LET op == canvas'.cur[Len(canvas'.cur)] IN
            y - ((op.row_top - op.row_bottom) + 2 * mm) >= bottom_margin =>
                /\ page_num' = page_num
                /\ canvas' = Draw(canvas, op)
                /\ op.row_top = y]_vars
    /\ [][(pc = "sections" /\ pc' = "rows") =>
            LET op == canvas'.cur[Len(canvas'.cur)] IN
            y - 12 * mm >= bottom_margin =>
                /\ page_num' = page_num
                /\ canvas' = Draw(canvas, op)
                /\ op.at = y]_vars

\* after a page break a second row was drawn on the new page, where it fitted
RowFittedAfterBreak ==
    /\ pc = "rows"
    /\ page_num >= 2
    /\ Cardinality(OpsOfKind(canvas.cur, "row")) >= 2
    /\ y < top_y

----------------------------------------------------------------------------
(* One call of _wrap_text on a bounded input, and a re-wrap of one line *)

MaxTextLen == 5
Alphabet == {"i", "W", SP, LF, CR}
WrapWidths == {300, 1200, 2600}
Fonts == {"Helvetica", "Helvetica-Bold"}

Texts == {NoneVal} \cup {StrVal(s) : s \in SeqsUpTo(Alphabet, MaxTextLen)}

PdfIdle ==
    /\ sections = << >> /\ logo_exists = FALSE /\ pc = "idle" /\ si = 0
    /\ filtered = << >> /\ ri = 0 /\ y = 0 /\ page_num = 0
    /\ canvas = [done |-> << >>, cur |-> << >>] /\ run = 0 /\ prev_out = << >>

InitWrap ==
    /\ w_pc = "call"
    /\ w_text \in Texts
    /\ w_max_width \in WrapWidths
    /\ w_font \in Fonts
    /\ w_lines = << >>
    /\ w_pick = 0
    /\ w_relines = << >>
    /\ PdfIdle

CallWrap ==
    /\ w_pc = "call"
    /\ w_lines' = wrap_text(w_text, w_max_width, w_font, value_size)
    /\ w_pc' = "returned"
    /\ UNCHANGED <<w_text, w_max_width, w_font, w_pick, w_relines>>
    /\ UNCHANGED pdf_vars

\* a caller wraps one line of the result again, at the same width and font
Rewrap ==
    /\ w_pc = "returned"
    /\ \E k \in 1..Len(w_lines) :
         /\ w_pick' = k
         /\ w_relines' = wrap_text(StrVal(w_lines[k]), w_max_width, w_font, value_size)
    /\ w_pc' = "rewrapped"
    /\ UNCHANGED <<w_text, w_max_width, w_font, w_lines>>
    /\ UNCHANGED pdf_vars

NextWrap == CallWrap \/ Rewrap

SpecWrap == InitWrap /\ [][NextWrap]_vars

----------------------------------------------------------------------------
(* Properties of _wrap_text *)

\* C6: every line _wrap_text returns measures at most max_width, except a
\* line that is one single character which is itself wider than max_width
\* (the minimal line of the hard split of an oversized token).
WrapLinesFit ==
    w_pc # "call" =>
        \A k \in 1..Len(w_lines) :
            \/ Fits(w_lines[k], w_max_width, w_font, value_size)
            \/ Len(w_lines[k]) = 1

\* the hard split ran and left a single character wider than max_width
WrapOversizedCharSeen ==
    /\ w_pc = "returned"
    /\ Len(w_lines) >= 2
    /\ \E k \in 1..Len(w_lines) :
         /\ Len(w_lines[k]) = 1
         /\ ~Fits(w_lines[k], w_max_width, w_font, value_size)

\* C7: _wrap_text never returns an empty sequence, and for None and for the
\* empty string it returns exactly the single empty line.
WrapNeverEmpty ==
    w_pc # "call" =>
        /\ Len(w_lines) >= 1
        /\ (w_text.t = "none" \/ (w_text.t = "str" /\ w_text.s = << >>))
              => w_lines = << << >> >>

WrapOfNoneSeen == w_pc = "returned" /\ w_text.t = "none" /\ w_lines = << << >> >>

\* C10: wrapping any line of the result again, at the same width and font,
\* returns exactly that one line.
RewrapIsIdentity ==
    w_pc = "rewrapped" => w_relines = <<w_lines[w_pick]>>

\* a token was hard-split, and the line that holds its last chunk followed by
\* a further token was re-wrapped
RewrapOfPackedLineSeen ==
    /\ w_pc = "rewrapped"
    /\ w_text.t = "str"
    /\ \A k \in 1..Len(w_text.s) : w_text.s[k] \notin {LF, CR}
    /\ \E k \in 1..Len(Words(w_text.s)) :
         ~Fits(Words(w_text.s)[k], w_max_width, w_font, value_size)
    /\ Len(Words(w_lines[w_pick])) >= 2

\* the characters of s that are no whitespace, in order
Ink(s) == LET NotSpace(ch) == ~IsSpace(ch) IN SelectSeq(s, NotSpace)

RECURSIVE Flatten(_)
Flatten(lines) == IF lines = << >> THEN << >> ELSE Head(lines) \o Flatten(Tail(lines))

\* C12: the returned lines, concatenated in order and with all whitespace
\* removed, are the text with all whitespace removed.
WrapKeepsContent ==
    (w_pc # "call" /\ w_text.t = "str") => Ink(Flatten(w_lines)) = Ink(w_text.s)

\* a token was hard-split and a further token followed it
HardSplitThenTokenSeen ==
    /\ w_pc = "returned"
    /\ w_text.t = "str"
    /\ \A k \in 1..Len(w_text.s) : w_text.s[k] \notin {LF, CR}
    /\ Len(Words(w_text.s)) >= 2
    /\ ~Fits(Words(w_text.s)[1], w_max_width, w_font, value_size)
    /\ Len(Words(w_text.s)[1]) >= 2

====
